---- MODULE Spec2Model ----
(***************************************************************************)
(* Clinical-Trial-Analytics ETL core: the paginated registry client        *)
(* (src/data/api_client.py), the raw-log transforms (src/etl/transform.py),*)
(* the relational loader (src/etl/load.py), the validator                  *)
(* (src/etl/validate.py) and the orchestration (scripts/run_etl.py).       *)
(*                                                                         *)
(* Two specifications share the state:                                     *)
(*   SpecFetch  one save_raw_data run against an arbitrary upstream;       *)
(*   Spec       repeated pipeline runs (main) against one store.           *)
(***************************************************************************)
EXTENDS Integers, Sequences, FiniteSets, TLC

\* ------------------------------------------------------------------ bounds
\* Pages an upstream answers with, records per page, and the largest
\* max_records / page size a caller passes (SpecFetch).
MaxPages == 3
MaxPageRecs == 2
MaxArg == 3
MaxPageSize == 2
\* Documents the registry holds and pipeline runs per behaviour (Spec).
MaxLog == 3
MaxRuns == 2
\* Seconds the wall clock can show when a run starts (SpecStore).
MaxClock == 2
\* load_studies flushes its pending inserts every batch_size records
\* (load.py:42 sets 100). The model keeps the rule and scales the size so
\* that a group boundary falls inside a batch of MaxLog records.
batch_size == 2

\* ------------------------------------------------------------- constants
api_max_records == 100000
api_page_size == 10000

\* ---------------------------------------------------------------- values
\* Python's None for an optional integer is the empty tuple, an integer n
\* is <<n>>; for an optional string None is the string "None".
None == <<>>
NoneStr == "None"

Min(a, b) == IF a <= b THEN a ELSE b

Take(s, n) == SubSeq(s, 1, Min(n, Len(s)))

IsPrefix(s, t) == Len(s) <= Len(t) /\ SubSeq(t, 1, Len(s)) = s

VARIABLES
    \* the upstream registry API: the page responses it will give, in order
    upstream,
    \* save_raw_data / fetch_all_studies
    max_records,      \* the caller's argument (None, or <<n>>)
    page_size,        \* self.page_size
    page_token,       \* 0 is None; otherwise the index of the page it names
    total_fetched,
    requests,         \* the page requests issued so far
    data_file,        \* lines of this run's raw log
    metadata_file,    \* None until written
    events,           \* what the client has done: sleeps, GETs, yields, logs
    raw_dir,          \* the files of the raw data directory, by name
    \* main
    pc,
    exit_code,        \* None while the process runs, then <<0>> or <<1>>
    run,
    registry,         \* the documents the registry holds
    studies_data,
    nct_id_to_study_id,
    related_data,
    validation_results,
    \* the store (committed rows; a row's position is its surrogate id)
    studies,
    conditions,
    locations,
    sponsors,
    \* history: the latest loader call and the finished runs
    call,
    history

fetchVars == <<upstream, max_records, page_size, page_token, total_fetched,
               requests, data_file, metadata_file, events, raw_dir>>
mainVars == <<run, registry, studies_data, nct_id_to_study_id, related_data,
              validation_results>>
storeVars == <<studies, conditions, locations, sponsors>>
vars == <<fetchVars, pc, exit_code, mainVars, storeVars, call, history>>

\* The history of the finished runs, for statements about repeated runs:
\* how many runs completed, the raw log and the row counts of the first of
\* them, the row counts when the current run started, and whether every run
\* so far either completed on that same raw log or left the store as it
\* found it. Once that is false nothing else is kept.
Counts(studs, conds, locs, spons) ==
    [studies |-> Len(studs), conditions |-> Len(conds),
     locations |-> Len(locs), sponsors |-> Len(spons)]

NoHistory ==
    [uniform |-> TRUE, full |-> 0, log |-> <<>>,
     counts |-> Counts(<<>>, <<>>, <<>>, <<>>), start |-> Counts(<<>>, <<>>, <<>>, <<>>)]

Broken == [NoHistory EXCEPT !.uniform = FALSE]

Finished(h, log, ok, now) ==
    IF ~h.uniform THEN h
    ELSE IF ~ok THEN (IF now = h.start THEN h ELSE Broken)
    ELSE IF h.full = 0 THEN [h EXCEPT !.full = 1, !.log = log, !.counts = now]
    ELSE IF log = h.log THEN [h EXCEPT !.full = @ + 1]
    ELSE Broken

\* ========================================================== the client
\* `max_records or settings.api_max_records`: None and 0 are both falsy.
OrDefault(m) == IF m = None \/ m = <<0>> THEN api_max_records ELSE m[1]

\* A page response: its HTTP status, the studies of its body and, with
\* token, a nextPageToken naming the following page. Status 0 stands for a
\* request that raised without an HTTP status (connection error, timeout,
\* a body that is not JSON).
OkStatus == 200

\* The statuses _request tells apart, and one it does not (404).
ErrorStatuses == {400, 403, 404, 429, 500}

\* A status that is neither 2xx nor an HTTP error.
OtherStatuses == {300}

\* response.raise_for_status() raises HTTPError for 4xx and 5xx only.
RaisesForStatus(status) == status >= 400 /\ status < 600

\* session.get raises a RequestException when there is no response.
NoResponse(status) == status = 0

\* time.sleep(1.0) before every page request, time.sleep(2.0) before the
\* next iteration, in seconds.
page_delay == 1
next_page_delay == 2

\* What the client does that the outside can see, in order.
Sleep(secs) == [kind |-> "sleep", secs |-> secs]

HomeGet(ok) == [kind |-> "get", url |-> "home", ok |-> ok]

PageGet(size, token) ==
    [kind |-> "get", url |-> "studies", pageSize |-> size, pageToken |-> token]

Yield(doc) == [kind |-> "yield", doc |-> doc]

Logged(class) == [kind |-> "log", class |-> class]

\* __init__ and _warm_up: one GET of the homepage; an exception of it is
\* logged and swallowed, and the constructor returns either way.
\* (Fault variant: the warm-up's exception leaves the constructor.)
AfterWarmUpRaising(ok) == IF ok THEN "fetch" ELSE "failed"

AfterWarmUp(ok) == "fetch"

WarmUp(ok) ==
    IF ok THEN <<HomeGet(TRUE)>> ELSE <<HomeGet(FALSE), Logged("warm_up_failed")>>

\* _request's except branches: which message is logged before the
\* exception is raised again. has_token is params.get("pageToken").
\* (Fault variant: the transient statuses are tested first and 400 is
\* taken for a stale token with or without one.)
ClassifyLoose(status, has_token) ==
    IF NoResponse(status) THEN "request_failed"
    ELSE IF status \in {429, 500, 502, 503, 504} THEN "retryable"
    ELSE IF status = 403 THEN "waf_block"
    ELSE IF status = 400 THEN "stale_page_token"
    ELSE "other_http_error"

Classify(status, has_token) ==
    IF NoResponse(status) THEN "request_failed"
    ELSE IF status = 403 THEN "waf_block"
    ELSE IF status = 400 /\ has_token THEN "stale_page_token"
    ELSE IF status \in {429, 500, 502, 503, 504} THEN "retryable"
    ELSE "other_http_error"

\* fetch_studies_page: the first request carries no token and gets page 1.
FetchStudiesPage(token) == upstream[IF token = 0 THEN 1 ELSE token]

\* The body of one loop iteration after a successful response: what is
\* yielded and whether the loop breaks.
\* (Fault variant: the empty-page break is missing.)
PageOutcomeNoEmptyBreak(response, total, cap) ==
    [yielded |-> Take(response.studies, cap - total), stop |-> ~response.token]

PageOutcome(response, total, cap) ==
    IF response.studies = <<>>
    THEN [yielded |-> <<>>, stop |-> TRUE]
    ELSE [yielded |-> Take(response.studies, cap - total),
          stop |-> ~response.token]

\* The end of an iteration that did not break: the longer delay.
\* (Fault variant: no delay between two pages.)
PacingAfterPageNone(out) == <<>>

PacingAfterPage(out) == IF out.stop THEN <<>> ELSE <<Sleep(next_page_delay)>>

\* main's handlers: any exception ends the run with sys.exit(1).
\* (Fault variant: the exception is swallowed and the run goes on.)
AfterRaiseSwallowed(next) == [pc |-> next, exit_code |-> None]

AfterRaise(next) == [pc |-> "failed", exit_code |-> <<1>>]

\* A failed page request: _request raises again in every branch, and so
\* does fetch_all_studies' handler; save_raw_data has none.
\* (Fault variant: the loop goes round again after a failed request.)
OnRequestFailureRetry(next) == [pc |-> "fetch", exit_code |-> None]

OnRequestFailure(next) == AfterRaise(next)

\* page_token = response.get("nextPageToken"): the token names the page
\* the upstream answers it with; a response that does not say which is
\* followed by the next page of the upstream.
\* (Fault variant: the client asks again for the page it has just got,
\* whatever token the response carries.)
NextPageTokenSamePage(response, idx) == idx

NextPageToken(response, idx) ==
    IF "next" \in DOMAIN response THEN response.next ELSE idx + 1

\* min(self.page_size, remaining), and fetch_studies_page's
\* `page_size or self.page_size`.
\* (Fault variant: the configured size, whatever is left of the quota.)
PageSizeConfigured(configured, remaining) == configured

PageSizeFor(configured, remaining) ==
    IF Min(configured, remaining) # 0 THEN Min(configured, remaining) ELSE configured

\* One iteration of fetch_all_studies' while loop, driven by save_raw_data,
\* which writes each yielded document as a line of the raw log.
FetchPage ==
    /\ pc = "fetch"
    /\ total_fetched < OrDefault(max_records)
    /\ LET cap == OrDefault(max_records)
           remaining == cap - total_fetched
           size == PageSizeFor(page_size, remaining)
           idx == IF page_token = 0 THEN 1 ELSE page_token
           response == FetchStudiesPage(page_token)
           out == PageOutcome(response, total_fetched, cap)
           asked == <<Sleep(page_delay), PageGet(size, page_token)>>
       IN /\ requests' = Append(requests, [pageSize |-> size, pageToken |-> page_token])
          /\ IF NoResponse(response.status) \/ RaisesForStatus(response.status)
             THEN /\ pc' = OnRequestFailure("transform").pc
                  /\ exit_code' = OnRequestFailure("transform").exit_code
                  /\ events' = events \o asked \o
                        <<Logged(Classify(response.status, page_token # 0))>>
                  /\ UNCHANGED <<data_file, total_fetched, page_token>>
             ELSE /\ data_file' = data_file \o out.yielded
                  /\ total_fetched' = total_fetched + Len(out.yielded)
                  /\ page_token' = IF out.stop THEN page_token
                                    ELSE NextPageToken(response, idx)
                  /\ pc' = IF out.stop THEN "exhausted" ELSE "fetch"
                  /\ events' = events \o asked
                        \o [j \in 1..Len(out.yielded) |-> Yield(out.yielded[j])]
                        \o PacingAfterPage(out)
                  /\ UNCHANGED exit_code
    /\ UNCHANGED <<upstream, max_records, page_size, metadata_file, raw_dir>>
    /\ UNCHANGED <<mainVars, storeVars, call, history>>

\* The while condition fails: the generator is exhausted.
FetchLoopExit ==
    /\ pc = "fetch"
    /\ total_fetched >= OrDefault(max_records)
    /\ pc' = "exhausted"
    /\ UNCHANGED <<fetchVars, exit_code, mainVars, storeVars, call, history>>

\* save_raw_data after the stream is exhausted: the metadata document.
\* (Fault variant: the count is the cap asked for, not the lines written.)
MetadataOfRequest(lines, size, m) ==
    [total_studies |-> OrDefault(m), page_size |-> size, max_records |-> OrDefault(m)]

Metadata(lines, size, m) ==
    [total_studies |-> Len(lines), page_size |-> size, max_records |-> OrDefault(m)]

SaveMetadata ==
    /\ pc = "exhausted"
    /\ metadata_file' = Metadata(data_file, page_size, max_records)
    /\ pc' = "transform"
    /\ UNCHANGED <<upstream, max_records, page_size, page_token, total_fetched,
                   requests, data_file, events, raw_dir>>
    /\ UNCHANGED <<exit_code, mainVars, storeVars, call, history>>

\* ---------------------------------------------------- SpecFetch's inputs
\* Page i of an upstream holds c documents, numbered by their place.
PageOf(i, c, tok) ==
    [status |-> OkStatus,
     studies |-> [j \in 1..c |-> (i - 1) * MaxPageRecs + j],
     token |-> tok]

ErrorPage(s) == [status |-> s, studies |-> <<>>, token |-> FALSE]

\* Every page but the last carries a token (it may be empty); the last
\* carries none, or is a failed request, or has a status that is neither.
LastStatuses == {0, OkStatus} \cup ErrorStatuses \cup OtherStatuses

FetchUpstreams ==
    UNION {
      UNION {
        { [i \in 1..n |->
             IF i < n THEN PageOf(i, counts[i], TRUE)
             ELSE IF last = OkStatus THEN PageOf(i, counts[i], FALSE)
             ELSE IF last \in OtherStatuses
                  THEN [PageOf(i, counts[i], FALSE) EXCEPT !.status = last]
             ELSE ErrorPage(last)] :
          last \in LastStatuses } :
        counts \in [1..n -> 0..MaxPageRecs] } :
      n \in 1..MaxPages }

Args == {None} \cup { <<n>> : n \in 0..MaxArg }

NoCall == [op |-> "none"]

InitFetch ==
    /\ upstream \in FetchUpstreams
    /\ max_records \in Args
    /\ page_size \in 1..MaxPageSize
    /\ page_token = 0
    /\ total_fetched = 0
    /\ requests = <<>>
    /\ data_file = <<>>
    /\ metadata_file = None
    /\ raw_dir = <<>>
    /\ \E ok \in BOOLEAN :
          /\ events = WarmUp(ok)
          /\ pc = AfterWarmUp(ok)
    /\ exit_code = None
    /\ run = 1
    /\ registry = <<>>
    /\ studies_data = <<>>
    /\ nct_id_to_study_id = <<>>
    /\ related_data = <<>>
    /\ validation_results = None
    /\ studies = <<>>
    /\ conditions = <<>>
    /\ locations = <<>>
    /\ sponsors = <<>>
    /\ call = NoCall
    /\ history = NoHistory

NextFetch == FetchPage \/ FetchLoopExit \/ SaveMetadata

SpecFetch == InitFetch /\ [][NextFetch]_vars

\* ------------------------------------------------------- token chaining
\* An upstream of at most MaxChain pages whose responses carry any of its
\* tokens, the token of the very page or of an earlier one included, or
\* none; every request is answered.
MaxChain == 2

ChainPage(c, next) ==
    [status |-> OkStatus, studies |-> [j \in 1..c |-> j],
     token |-> next # 0, next |-> next]

ChainUpstreams ==
    UNION { [1..n -> { ChainPage(c, next) : c \in 0..MaxPageRecs, next \in 0..n }] :
            n \in 1..MaxChain }

\* The requests of one run that the check follows.
MaxRequests == 4

FetchPageWithinBound ==
    /\ Len(requests) < MaxRequests
    /\ FetchPage

InitChain ==
    /\ upstream \in ChainUpstreams
    /\ max_records \in Args
    /\ page_size = MaxPageSize
    /\ page_token = 0
    /\ total_fetched = 0
    /\ requests = <<>>
    /\ data_file = <<>>
    /\ metadata_file = None
    /\ raw_dir = <<>>
    /\ events = WarmUp(TRUE)
    /\ pc = AfterWarmUp(TRUE)
    /\ exit_code = None
    /\ run = 1
    /\ registry = <<>>
    /\ studies_data = <<>>
    /\ nct_id_to_study_id = <<>>
    /\ related_data = <<>>
    /\ validation_results = None
    /\ studies = <<>>
    /\ conditions = <<>>
    /\ locations = <<>>
    /\ sponsors = <<>>
    /\ call = NoCall
    /\ history = NoHistory

NextChain == FetchPageWithinBound \/ FetchLoopExit \/ SaveMetadata

SpecChain == InitChain /\ [][NextChain]_vars

\* -------------------------------------------------------- the raw store
\* save_raw_data names its two files after the local wall-clock second at
\* which it starts, datetime.now().strftime("%Y%m%d_%H%M%S"). The seconds
\* the clock can show are 1..MaxClock; nothing makes two runs read
\* different ones.
Timestamps == 1..MaxClock

DataFileName(timestamp) == <<"studies", timestamp>>

MetadataFileName(timestamp) == <<"metadata", timestamp>>

\* open(path, "w") and the writes up to close: the file is created, or
\* truncated if it is there, and holds what was written.
WriteFile(dir, name, content) ==
    [f \in DOMAIN dir \cup {name} |-> IF f = name THEN content ELSE dir[f]]

\* One save_raw_data call. The stream yields n documents and then ends, or
\* raises; the documents of run r are numbered like those of page r.
SaveRawData ==
    /\ pc \in {"idle", "transform", "failed"}
    /\ run < MaxRuns
    /\ run' = run + 1
    /\ \E timestamp \in Timestamps, n \in 0..MaxPageRecs, raised \in BOOLEAN :
          LET lines == PageOf(run + 1, n, FALSE).studies
              metadata == Metadata(lines, page_size, max_records)
              written == WriteFile(raw_dir, DataFileName(timestamp), lines)
          IN /\ data_file' = lines
             /\ metadata_file' = IF raised THEN None ELSE metadata
             /\ raw_dir' = IF raised THEN written
                           ELSE WriteFile(written, MetadataFileName(timestamp), metadata)
             /\ pc' = IF raised THEN "failed" ELSE "transform"
             /\ exit_code' = IF raised THEN <<1>> ELSE None
    /\ UNCHANGED <<upstream, max_records, page_size, page_token, total_fetched,
                   requests, events>>
    /\ UNCHANGED <<registry, studies_data, nct_id_to_study_id, related_data,
                   validation_results, storeVars, call, history>>

InitStore ==
    /\ upstream = <<>>
    /\ max_records = None
    /\ page_size = api_page_size
    /\ page_token = 0
    /\ total_fetched = 0
    /\ requests = <<>>
    /\ data_file = <<>>
    /\ metadata_file = None
    /\ events = <<>>
    /\ raw_dir = <<>>
    /\ pc = "idle"
    /\ exit_code = None
    /\ run = 0
    /\ registry = <<>>
    /\ studies_data = <<>>
    /\ nct_id_to_study_id = <<>>
    /\ related_data = <<>>
    /\ validation_results = None
    /\ studies = <<>>
    /\ conditions = <<>>
    /\ locations = <<>>
    /\ sponsors = <<>>
    /\ call = NoCall
    /\ history = NoHistory

NextStore == SaveRawData

SpecStore == InitStore /\ [][NextStore]_vars

\* ====================================================== the transforms
\* The raw documents. A line of the raw log is the JSON of one of them,
\* written here as its number. Document 1 is the sample of tests/test_load.py
\* (two conditions, one location, a lead sponsor, no collaborators);
\* document 2 carries the same natural id with other content; document 5
\* has no identificationModule.nctId.
Doc(d) ==
    CASE d = 1 -> [nct_id |-> "NCT1", title |-> "t1",
                   conditions |-> <<"Diabetes", "Obesity">>,
                   locations |-> <<"Test Hospital">>,
                   lead |-> "Test Pharma", collaborators |-> <<>>]
      [] d = 2 -> [nct_id |-> "NCT1", title |-> "t2",
                   conditions |-> <<"Asthma">>,
                   locations |-> <<>>,
                   lead |-> NoneStr, collaborators |-> <<"Univ">>]
      [] d = 3 -> [nct_id |-> "NCT2", title |-> "t1",
                   conditions |-> <<"Asthma">>,
                   locations |-> <<"Clinic">>,
                   lead |-> "Univ", collaborators |-> <<"Test Pharma">>]
      [] d = 4 -> [nct_id |-> "NCT3", title |-> "t1",
                   conditions |-> <<>>,
                   locations |-> <<"Clinic">>,
                   lead |-> "Test Pharma", collaborators |-> <<>>]
      [] d = 6 -> [nct_id |-> "NCT4", title |-> "t1",
                   conditions |-> <<"Asthma">>,
                   locations |-> <<"Clinic">>,
                   lead |-> "Univ", collaborators |-> <<>>]
      [] d = 7 -> [nct_id |-> "NCT5", title |-> "t1",
                   conditions |-> <<"Asthma">>,
                   locations |-> <<>>,
                   lead |-> "Univ", collaborators |-> <<>>]
      [] d = 8 -> [nct_id |-> "NCT6", title |-> "t1",
                   conditions |-> <<"Asthma">>,
                   locations |-> <<>>,
                   lead |-> "Univ", collaborators |-> <<>>]
      [] d = 12 -> [nct_id |-> "NCT7", title |-> "t1",
                   conditions |-> <<>>,
                   locations |-> <<>>,
                   lead |-> NoneStr, collaborators |-> <<>>]
      [] OTHER -> [nct_id |-> NoneStr, title |-> "t1",
                   conditions |-> <<"Obesity">>,
                   locations |-> <<"Clinic">>,
                   lead |-> "Univ", collaborators |-> <<>>]

DocIds == 1..5

\* How a key of a JSON object is found: with an object or a value under
\* it, with null under it, or not at all.
Present == "present"
Null == "null"
Absent == "absent"

\* A line of the raw log and the nested structures of its document.
\* Documents 1 to 5 are complete. Document 6 has "statusModule": null;
\* document 7 has no status, design and description modules and
\* "eligibilityModule": null; document 8 has
\* "contactsLocationsModule": null; line 9 is not JSON; line 10 is blank;
\* document 11 is {"protocolSection": null}; document 12 has
\* "enrollmentInfo": null in its design module.
Complete ==
    [line |-> "json", protocolSection |-> Present,
     identificationModule |-> Present, statusModule |-> Present,
     startDateStruct |-> Present, designModule |-> Present,
     enrollmentInfo |-> Present, descriptionModule |-> Present,
     eligibilityModule |-> Present, conditionsModule |-> Present,
     contactsLocationsModule |-> Present,
     sponsorCollaboratorsModule |-> Present]

Shape(d) ==
    CASE d = 6 -> [Complete EXCEPT !.statusModule = Null]
      [] d = 7 -> [Complete EXCEPT !.statusModule = Absent,
                                   !.designModule = Absent,
                                   !.descriptionModule = Absent,
                                   !.eligibilityModule = Null]
      [] d = 8 -> [Complete EXCEPT !.contactsLocationsModule = Null]
      [] d = 9 -> [Complete EXCEPT !.line = "bad"]
      [] d = 10 -> [Complete EXCEPT !.line = "blank"]
      [] d = 11 -> [Complete EXCEPT !.protocolSection = Null]
      [] d = 12 -> [Complete EXCEPT !.enrollmentInfo = Null]
      [] OTHER -> Complete

\* The lines a raw log is made of.
MaxLine == 12

LineIds == 1..MaxLine

\* json.loads(line.strip()) raises json.JSONDecodeError.
JSONDecodeError(d) == Shape(d).line # "json"

\* obj.get(key, {}).get(...): the default stands in for a missing key only,
\* so a key holding null gives None and the second get raises
\* AttributeError.
GetRaises(d, key) == Shape(d)[key] = Null

\* obj.get(key, {}).get(field): the field of the object under key, None
\* when the key is missing.
GetField(d, key, value) == IF Shape(d)[key] = Present THEN value ELSE NoneStr

\* Python dicts are functions from keys; pop and item assignment.
Pop(d, k) == [x \in DOMAIN d \ {k} |-> d[x]]

Put(d, k, v) == [x \in DOMAIN d \cup {k} |-> IF x = k THEN v ELSE d[x]]

EmptyMap == [x \in {} |-> 0]

\* study.get("protocolSection", {}).get("identificationModule", {}).get("nctId")
\* raises on a null section or module.
NctIdRaises(d) ==
    \/ GetRaises(d, "protocolSection")
    \/ GetRaises(d, "identificationModule")

\* The natural id both passes go on with: None stands for a line that
\* does not parse, for an extraction that raises and for a missing or
\* empty id, all of which make the pass go to the next line.
NctId(d) ==
    IF JSONDecodeError(d) \/ NctIdRaises(d) THEN NoneStr
    ELSE GetField(d, "identificationModule", Doc(d).nct_id)

\* ---------------------------------------------------------------- dates
\* A date string is the sequence of its characters; NoDate is parse_date's
\* None among them.
NoDate == <<NoneStr>>

Digits == {"0", "1", "2", "3", "4", "5", "6", "7", "8", "9"}

DigitVal(c) ==
    CASE c = "0" -> 0 [] c = "1" -> 1 [] c = "2" -> 2 [] c = "3" -> 3
      [] c = "4" -> 4 [] c = "5" -> 5 [] c = "6" -> 6 [] c = "7" -> 7
      [] c = "8" -> 8 [] OTHER -> 9

DigitChar(n) == CHOOSE c \in Digits : DigitVal(c) = n

IsDigits(s) == \A i \in 1..Len(s) : s[i] \in Digits

RECURSIVE NumVal(_)
NumVal(s) ==
    IF s = <<>> THEN 0
    ELSE 10 * NumVal(SubSeq(s, 1, Len(s) - 1)) + DigitVal(s[Len(s)])

\* strptime's patterns for %m, 1[0-2]|0[1-9]|[1-9], and for %d,
\* 3[0-1]|[1-2]\d|0[1-9]|[1-9]| [1-9]; %Y is \d\d\d\d.
MonthToken(t) ==
    \/ Len(t) = 2 /\ t[1] = "1" /\ t[2] \in {"0", "1", "2"}
    \/ Len(t) = 2 /\ t[1] = "0" /\ t[2] \in Digits \ {"0"}
    \/ Len(t) = 1 /\ t[1] \in Digits \ {"0"}

DayToken(t) ==
    \/ Len(t) = 2 /\ t[1] = "3" /\ t[2] \in {"0", "1"}
    \/ Len(t) = 2 /\ t[1] \in {"1", "2"} /\ t[2] \in Digits
    \/ Len(t) = 2 /\ t[1] \in {"0", " "} /\ t[2] \in Digits \ {"0"}
    \/ Len(t) = 1 /\ t[1] \in Digits \ {"0"}

DayVal(t) == IF t[1] = " " THEN DigitVal(t[2]) ELSE NumVal(t)

IsLeap(y) == (y % 4 = 0 /\ y % 100 # 0) \/ y % 400 = 0

DaysIn(y, m) ==
    IF m = 2 THEN (IF IsLeap(y) THEN 29 ELSE 28)
    ELSE IF m \in {4, 6, 9, 11} THEN 30 ELSE 31

\* datetime(y, m, d) raises ValueError outside MINYEAR..MAXYEAR and for a
\* day the month does not have.
ValidYMD(y, m, d) == y >= 1 /\ m \in 1..12 /\ d \in 1..DaysIn(y, m)

NoMatch == [ok |-> FALSE, year |-> <<>>, m |-> 0, d |-> 0]

\* datetime.strptime(s, "%Y-%m-%d"), (s, "%Y-%m") and (s, "%Y"): the whole
\* string has to match, and the date has to exist.
StrptimeYMD(s) ==
    LET splits == { x \in {1, 2} \X {1, 2} :
                      /\ Len(s) = 6 + x[1] + x[2]
                      /\ IsDigits(SubSeq(s, 1, 4))
                      /\ s[5] = "-"
                      /\ MonthToken(SubSeq(s, 6, 5 + x[1]))
                      /\ s[6 + x[1]] = "-"
                      /\ DayToken(SubSeq(s, 7 + x[1], 6 + x[1] + x[2])) }
    IN IF splits = {} THEN NoMatch
       ELSE LET x == CHOOSE x \in splits : TRUE
                y == NumVal(SubSeq(s, 1, 4))
                m == NumVal(SubSeq(s, 6, 5 + x[1]))
                d == DayVal(SubSeq(s, 7 + x[1], 6 + x[1] + x[2]))
            IN IF ValidYMD(y, m, d)
               THEN [ok |-> TRUE, year |-> SubSeq(s, 1, 4), m |-> m, d |-> d]
               ELSE NoMatch

StrptimeYM(s) ==
    IF /\ Len(s) \in {6, 7}
       /\ IsDigits(SubSeq(s, 1, 4))
       /\ s[5] = "-"
       /\ MonthToken(SubSeq(s, 6, Len(s)))
       /\ NumVal(SubSeq(s, 1, 4)) >= 1
    THEN [ok |-> TRUE, year |-> SubSeq(s, 1, 4),
          m |-> NumVal(SubSeq(s, 6, Len(s))), d |-> 1]
    ELSE NoMatch

StrptimeY(s) ==
    IF Len(s) = 4 /\ IsDigits(s) /\ NumVal(s) >= 1
    THEN [ok |-> TRUE, year |-> s, m |-> 1, d |-> 1]
    ELSE NoMatch

\* dt.strftime("%Y-%m-%d"): two digits for month and day; the C library
\* writes the year without leading zeros.
RECURSIVE StripZeros(_)
StripZeros(s) ==
    IF Len(s) > 1 /\ s[1] = "0" THEN StripZeros(Tail(s)) ELSE s

TwoDigits(n) == <<DigitChar(n \div 10), DigitChar(n % 10)>>

Strftime(dt) ==
    StripZeros(dt.year) \o <<"-">> \o TwoDigits(dt.m) \o <<"-">> \o TwoDigits(dt.d)

\* f"{date_str}-01" and f"{date_str[:4]}-01-01".
\* (Fault variant: the year is returned as it came.)
FirstOfMonth(s) == s \o <<"-", "0", "1">>

FirstOfYearAsGiven(s) == s

FirstOfYear(s) == s \o <<"-", "0", "1", "-", "0", "1">>

\* parse_date. A ValueError of the first strptime leaves through the outer
\* handler, one inside the loop goes on to the next format.
ParseDate(date_str) ==
    IF date_str = NoDate \/ date_str = <<>> THEN NoDate
    ELSE IF Len(date_str) = 7 /\ date_str[5] = "-" THEN FirstOfMonth(date_str)
    ELSE IF Len(date_str) = 10
         THEN (IF StrptimeYMD(date_str).ok THEN date_str ELSE NoDate)
    ELSE LET head == Take(date_str, 10)
         IN IF StrptimeYMD(head).ok THEN Strftime(StrptimeYMD(head))
            ELSE IF StrptimeYM(head).ok THEN FirstOfMonth(Take(date_str, 7))
            ELSE IF StrptimeY(head).ok THEN FirstOfYear(Take(date_str, 4))
            ELSE NoDate

\* statusModule.startDateStruct.date and completionDateStruct.date of the
\* documents.
StartDate(d) ==
    IF d = 2 THEN <<"2", "0", "2", "3", "-", "0", "1", "-", "1", "5">>
    ELSE <<"2", "0", "2", "3", "-", "0", "1">>

CompletionDate(d) == IF d = 3 THEN <<>> ELSE <<"2", "0", "2", "4">>

\* ---------------------------------------------------------- phase tags
\* A phase list is None or <<tags>>; a tag and the joined string are
\* sequences of characters, NoPhase is parse_phase's None among them.
NoPhase == <<NoneStr>>

\* ", ".join(phase_list)
\* (Fault variant: the tags are joined without the separator.)
RECURSIVE JoinBare(_)
JoinBare(tags) ==
    IF tags = <<>> THEN <<>> ELSE Head(tags) \o JoinBare(Tail(tags))

RECURSIVE Join(_)
Join(tags) ==
    IF Len(tags) <= 1 THEN JoinBare(tags)
    ELSE Head(tags) \o <<",", " ">> \o Join(Tail(tags))

\* parse_phase: `if not phase_list` takes None and the empty list alike.
ParsePhase(phase_list) ==
    IF phase_list = None \/ phase_list[1] = <<>> THEN NoPhase
    ELSE Join(phase_list[1])

\* `enrollment if enrollment else None`, on enrollmentInfo.count: None or
\* <<count>>.
\* (Fault variant: every count is taken for absent.)
EnrollmentDropped(count) == None

Enrollment(count) == IF count = None \/ count = <<0>> THEN None ELSE count

\* designModule.enrollmentInfo.count of the documents.
EnrollmentCount(d) == IF d = 4 THEN <<0>> ELSE IF d = 3 THEN None ELSE <<100>>

\* transform_study raises AttributeError on a module or struct that is
\* present but null (eligibility is fetched and never read).
TransformStudyRaises(d) ==
    \/ GetRaises(d, "statusModule")
    \/ Shape(d).statusModule = Present /\ GetRaises(d, "startDateStruct")
    \/ GetRaises(d, "designModule")
    \/ Shape(d).designModule = Present /\ GetRaises(d, "enrollmentInfo")
    \/ GetRaises(d, "descriptionModule")

\* transform_study, when it does not raise. The columns left out copy a
\* field of the document the way these do.
TransformStudy(d) ==
    [nct_id |-> GetField(d, "identificationModule", Doc(d).nct_id),
     title |-> GetField(d, "identificationModule", Doc(d).title),
     brief_summary |-> GetField(d, "descriptionModule", "summary"),
     status |-> GetField(d, "statusModule", "RECRUITING"),
     start_date |-> ParseDate(IF /\ Shape(d).statusModule = Present
                                 /\ Shape(d).startDateStruct = Present
                              THEN StartDate(d)
                              ELSE NoDate),
     completion_date |-> ParseDate(IF Shape(d).statusModule = Present
                                   THEN CompletionDate(d)
                                   ELSE NoDate),
     enrollment |-> Enrollment(IF /\ Shape(d).designModule = Present
                                  /\ Shape(d).enrollmentInfo = Present
                               THEN EnrollmentCount(d)
                               ELSE None),
     enrollment_type |-> IF Shape(d).designModule = Present
                         THEN GetField(d, "enrollmentInfo", "ACTUAL")
                         ELSE NoneStr]

\* transform_raw_data: a line without a natural id is skipped, and so is
\* a line on which transform_study raises; the record of every other line
\* also carries the temporary key _nct_id.
TransformRawData(lines) ==
    LET kept == SelectSeq(lines, LAMBDA d : /\ NctId(d) # NoneStr
                                            /\ ~TransformStudyRaises(d))
    IN [i \in 1..Len(kept) |-> Put(TransformStudy(kept[i]), "_nct_id", NctId(kept[i]))]

TransformConditionsRaises(d) == GetRaises(d, "conditionsModule")

TransformLocationsRaises(d) == GetRaises(d, "contactsLocationsModule")

TransformSponsorsRaises(d) == GetRaises(d, "sponsorCollaboratorsModule")

TransformConditions(d, study_id) ==
    [j \in 1..Len(Doc(d).conditions) |->
        [study_id |-> study_id, condition_name |-> Doc(d).conditions[j],
         mesh_term |-> NoneStr]]

TransformLocations(d, study_id) ==
    [j \in 1..Len(Doc(d).locations) |->
        [study_id |-> study_id, facility |-> Doc(d).locations[j],
         continent |-> NoneStr]]

TransformSponsors(d, study_id) ==
    (IF Doc(d).lead # NoneStr
     THEN <<[study_id |-> study_id, agency |-> Doc(d).lead,
             lead_or_collaborator |-> "Lead"]>>
     ELSE <<>>)
    \o [j \in 1..Len(Doc(d).collaborators) |->
           [study_id |-> study_id, agency |-> Doc(d).collaborators[j],
            lead_or_collaborator |-> "Collaborator"]]

\* nct_id_to_study_id.get(nct_id): 0 stands for None (both are falsy).
\* (Fault variant: the line number is taken for the study_id.)
MappedStudyIdByLine(map, nct_id, line_num) == line_num

\* (Fault variant: a natural id the mapping does not know gets study 1.)
MappedStudyIdOrFirst(map, nct_id, line_num) ==
    IF nct_id \in DOMAIN map THEN map[nct_id] ELSE 1

MappedStudyId(map, nct_id, line_num) ==
    IF nct_id \in DOMAIN map THEN map[nct_id] ELSE 0

\* The three extend calls on one line: each list is extended as soon as
\* its rows are built, so a raise leaves the lists extended before it.
Extend(acc, d, study_id) ==
    LET c == ~TransformConditionsRaises(d)
        l == c /\ ~TransformLocationsRaises(d)
        s == l /\ ~TransformSponsorsRaises(d)
    IN [conditions |-> acc.conditions
                       \o (IF c THEN TransformConditions(d, study_id) ELSE <<>>),
        locations |-> acc.locations
                      \o (IF l THEN TransformLocations(d, study_id) ELSE <<>>),
        sponsors |-> acc.sponsors
                     \o (IF s THEN TransformSponsors(d, study_id) ELSE <<>>)]

\* transform_related_tables: the second pass over the raw log.
RECURSIVE RelatedLoop(_, _, _, _)
RelatedLoop(lines, map, line_num, acc) ==
    IF line_num > Len(lines) THEN acc
    ELSE LET d == lines[line_num]
             study_id == MappedStudyId(map, NctId(d), line_num)
         IN IF NctId(d) = NoneStr \/ study_id = 0
            THEN RelatedLoop(lines, map, line_num + 1, acc)
            ELSE RelatedLoop(lines, map, line_num + 1,
                   Extend(acc, d, study_id))

NoRelated == [conditions |-> <<>>, locations |-> <<>>, sponsors |-> <<>>]

TransformRelatedTables(lines, map) == RelatedLoop(lines, map, 1, NoRelated)

\* ========================================================== the loader
\* A connection: db is what is committed, tx what this connection sees.
\* `with engine.connect() as conn` closes the connection on the way out, by
\* return or by exception, and closing rolls back what is not committed.
Connect(table) == [db |-> table, tx |-> table]

Commit(conn) == [db |-> conn.tx, tx |-> conn.tx]

Close(conn) == conn.db

\* SELECT study_id FROM studies WHERE nct_id = :nct_id, fetchone():
\* the first matching row's id, 0 for no row.
\* (Fault variant: the newest row's id, whatever its nct_id.)
SelectStudyIdNoWhere(tx, nct_id) ==
    IF \E i \in 1..Len(tx) : tx[i].nct_id = nct_id THEN Len(tx) ELSE 0

SelectStudyId(tx, nct_id) ==
    IF \E i \in 1..Len(tx) : tx[i].nct_id = nct_id
    THEN CHOOSE i \in 1..Len(tx) :
            /\ tx[i].nct_id = nct_id
            /\ \A j \in 1..(i - 1) : tx[j].nct_id # nct_id
    ELSE 0

\* The studies table declares the natural id unique (spec section 6): an
\* INSERT of a second row with the same nct_id raises IntegrityError.
UniqueViolation(tx, row) == \E i \in 1..Len(tx) : tx[i].nct_id = row.nct_id

\* The state of a load_studies call: the connection, the pending inserts
\* (studies_to_insert, as positions in studies_data: the list holds the same
\* dict objects), the mapping, the input list as mutated so far, the number
\* of INSERTs executed, and whether no exception has been raised.
StartLoad(table, data) ==
    [conn |-> Connect(table), to_insert |-> <<>>, map |-> EmptyMap,
     data |-> data, inserts |-> 0, ok |-> TRUE]

\* _insert_studies_batch, first loop: INSERT every pending study. The
\* failAt-th INSERT of the call raises (a constraint of the schema, the
\* disk, an interrupt); so does a second row for a natural id.
RECURSIVE InsertLoop(_, _, _)
InsertLoop(s, k, failAt) ==
    IF k > Len(s.to_insert) THEN s
    ELSE LET i == s.to_insert[k]
             row == Pop(s.data[i], "_nct_id")
         IN IF s.inserts + 1 = failAt \/ UniqueViolation(s.conn.tx, row)
            THEN [s EXCEPT !.ok = FALSE, !.data[i] = row, !.inserts = @ + 1]
            ELSE InsertLoop([s EXCEPT !.conn.tx = Append(@, row),
                                      !.inserts = @ + 1], k + 1, failAt)

\* _insert_studies_batch, second loop: read back the assigned ids.
\* (Fault variant: the temporary key is read and left in the record.)
RECURSIVE MapLoopKeepingKey(_, _)
MapLoopKeepingKey(s, k) ==
    IF k > Len(s.to_insert) THEN s
    ELSE LET i == s.to_insert[k]
             nct_id == s.data[i]["_nct_id"]
         IN MapLoopKeepingKey(
               [s EXCEPT !.map = Put(@, nct_id, SelectStudyId(s.conn.tx, nct_id))],
               k + 1)

RECURSIVE MapLoop(_, _)
MapLoop(s, k) ==
    IF k > Len(s.to_insert) THEN s
    ELSE LET i == s.to_insert[k]
             nct_id == s.data[i]["_nct_id"]
         IN MapLoop([s EXCEPT !.data[i] = Pop(@, "_nct_id"),
                              !.map = Put(@, nct_id, SelectStudyId(s.conn.tx, nct_id))],
                    k + 1)

\* (Fault variant: each insert group is committed on its own.)
InsertStudiesBatchCommitting(s, failAt) ==
    LET a == InsertLoop(s, 1, failAt)
    IN IF a.ok THEN [MapLoop(a, 1) EXCEPT !.conn = Commit(@)]
       ELSE a

InsertStudiesBatch(s, failAt) ==
    LET a == InsertLoop(s, 1, failAt)
    IN IF a.ok THEN MapLoop(a, 1) ELSE a

\* load_studies, the branch for a study whose natural id the SELECT found:
\* the id is recorded and nothing is written.
\* (Fault variants: the existing row is overwritten; the id is not recorded.)
OnExistingUpsert(s, i, nct_id, existing) ==
    [s EXCEPT !.map = Put(@, nct_id, existing),
              !.conn.tx[existing] = s.data[i]]

OnExistingUnmapped(s, i, nct_id, existing) == s

OnExisting(s, i, nct_id, existing) ==
    [s EXCEPT !.map = Put(@, nct_id, existing)]

\* load_studies, the loop over studies_data. A record without the
\* temporary key raises KeyError at the pop.
RECURSIVE LoadStudiesLoop(_, _, _)
LoadStudiesLoop(s, i, failAt) ==
    IF ~s.ok \/ i > Len(s.data) THEN s
    ELSE IF "_nct_id" \notin DOMAIN s.data[i] THEN [s EXCEPT !.ok = FALSE]
    ELSE LET nct_id == s.data[i]["_nct_id"]
             popped == [s EXCEPT !.data[i] = Pop(@, "_nct_id")]
             existing == SelectStudyId(s.conn.tx, nct_id)
         IN IF existing # 0
            THEN LoadStudiesLoop(OnExisting(popped, i, nct_id, existing), i + 1, failAt)
            ELSE LET pending == [s EXCEPT !.to_insert = Append(@, i)]
                 IN IF Len(pending.to_insert) >= batch_size
                    THEN LoadStudiesLoop(
                           [InsertStudiesBatch(pending, failAt) EXCEPT !.to_insert = <<>>],
                           i + 1, failAt)
                    ELSE LoadStudiesLoop(pending, i + 1, failAt)

\* load_studies: what the call leaves committed, whether it returned, the
\* mapping it returned and the caller's list as it left it.
LoadStudies(data, table, failAt) ==
    LET looped == LoadStudiesLoop(StartLoad(table, data), 1, failAt)
        flushed == IF looped.ok /\ looped.to_insert # <<>>
                   THEN InsertStudiesBatch(looped, failAt)
                   ELSE looped
        ended == IF flushed.ok THEN [flushed EXCEPT !.conn = Commit(@)] ELSE flushed
    IN [ok |-> ended.ok, table |-> Close(ended.conn), ret |-> ended.map,
        data |-> ended.data]

\* load_conditions / load_locations / load_sponsors: the loop of INSERTs
\* and the single commit after it.
RECURSIVE BulkInsert(_, _, _, _)
BulkInsert(conn, rows, k, failAt) ==
    IF k > Len(rows) THEN [ok |-> TRUE, conn |-> Commit(conn)]
    ELSE IF k = failAt THEN [ok |-> FALSE, conn |-> conn]
    ELSE BulkInsert([conn EXCEPT !.tx = Append(@, rows[k])], rows, k + 1, failAt)

\* (Fault variant: rows already in the table are skipped.)
LoadRowsSkippingKnown(rows, table, failAt) ==
    LET new == SelectSeq(rows, LAMBDA r : \A i \in 1..Len(table) : table[i] # r)
        done == BulkInsert(Connect(table), new, 1, failAt)
    IN [ok |-> done.ok, table |-> Close(done.conn), ret |-> Len(rows)]

LoadRows(rows, table, failAt) ==
    IF rows = <<>> THEN [ok |-> TRUE, table |-> table, ret |-> 0]
    ELSE LET done == BulkInsert(Connect(table), rows, 1, failAt)
         IN [ok |-> done.ok, table |-> Close(done.conn), ret |-> Len(rows)]

LoadConditions(rows, table, failAt) == LoadRows(rows, table, failAt)

LoadLocations(rows, table, failAt) == LoadRows(rows, table, failAt)

LoadSponsors(rows, table, failAt) == LoadRows(rows, table, failAt)

\* ======================================================= the validator
Orphans(table, studs) ==
    Cardinality({i \in 1..Len(table) : table[i].study_id \notin 1..Len(studs)})

\* The order of SQL's < on two dates, character by character.
CharOrd(c) == IF c \in Digits THEN DigitVal(c) + 1 ELSE 0

RECURSIVE DateLess(_, _)
DateLess(a, b) ==
    IF b = <<>> THEN FALSE
    ELSE IF a = <<>> THEN TRUE
    ELSE IF Head(a) # Head(b) THEN CharOrd(Head(a)) < CharOrd(Head(b))
    ELSE DateLess(Tail(a), Tail(b))

\* round(start_date_not_null / studies_count * 100, 2) if studies_count > 0
\* else 0, in hundredths of a percent.
StartDatePct(not_null, studies_count) ==
    IF studies_count > 0
    THEN (2 * not_null * 10000 + studies_count) \div (2 * studies_count)
    ELSE 0

\* validate_data tests nothing it has counted: the results are logged and
\* returned.
\* (Fault variant: an anomaly among the results raises.)
ValidationRaisesOnAnomaly(results) ==
    \/ ~results.uniqueness.is_unique
    \/ results.dates.date_inconsistencies > 0
    \/ results.foreign_keys.orphaned_conditions > 0

ValidationRaises(results) == FALSE

ValidateData(studs, conds, locs, spons) ==
    [counts |-> [studies |-> Len(studs), conditions |-> Len(conds),
                 locations |-> Len(locs), sponsors |-> Len(spons)],
     uniqueness |->
        [unique_nct_ids |-> Cardinality({studs[i].nct_id : i \in 1..Len(studs)}),
         total_studies |-> Len(studs),
         is_unique |-> Cardinality({studs[i].nct_id : i \in 1..Len(studs)}) = Len(studs)],
     dates |->
        LET not_null == Cardinality({i \in 1..Len(studs) : studs[i].start_date # NoDate})
        IN [start_date_not_null |-> not_null,
            start_date_pct |-> StartDatePct(not_null, Len(studs)),
            date_inconsistencies |->
               Cardinality({i \in 1..Len(studs) :
                               /\ studs[i].completion_date # NoDate
                               /\ studs[i].start_date # NoDate
                               /\ DateLess(studs[i].completion_date,
                                           studs[i].start_date)})],
     foreign_keys |->
        [orphaned_conditions |-> Orphans(conds, studs),
         orphaned_locations |-> Orphans(locs, studs),
         orphaned_sponsors |-> Orphans(spons, studs)]]

\* ============================================================== main
\* The registry answers a run with all its documents in one page, or with
\* a page and a token whose follow-up request is refused.
UpstreamsOf(docs) ==
    { <<[status |-> OkStatus, studies |-> docs, token |-> FALSE]>>,
      <<[status |-> OkStatus, studies |-> docs, token |-> TRUE], ErrorPage(403)>> }

\* ClinicalTrialsAPI(): the warm-up goes well while the registry answers
\* every request, and fails when the registry is about to refuse one.
WarmUpOf(pages) == WarmUp(\A i \in 1..Len(pages) : pages[i].status = OkStatus)

\* --max-records absent, or a cap that cuts the registry's answer short.
CliArgs == {None, <<1>>}

\* main up to extract_raw_data: --max-records, when given, is passed on;
\* save_raw_data opens a new raw log.
StartRun ==
    /\ pc \in {"idle", "done", "failed"}
    /\ run < MaxRuns
    /\ run' = run + 1
    /\ \E cli \in CliArgs :
          max_records' = IF cli # None THEN cli ELSE <<api_max_records>>
    /\ upstream' \in UpstreamsOf(registry)
    /\ events' = WarmUpOf(upstream')
    /\ page_token' = 0
    /\ total_fetched' = 0
    /\ requests' = <<>>
    /\ data_file' = <<>>
    /\ metadata_file' = None
    /\ pc' = "fetch"
    /\ exit_code' = None
    /\ studies_data' = <<>>
    /\ nct_id_to_study_id' = EmptyMap
    /\ related_data' = NoRelated
    /\ validation_results' = None
    /\ call' = NoCall
    /\ history' = IF history.uniform
                  THEN [history EXCEPT !.start = Counts(studies, conditions, locations, sponsors)]
                  ELSE history
    /\ UNCHANGED <<page_size, raw_dir, registry, storeVars>>

\* Step 2: transform_raw_data(data_file)["studies_raw"].
TransformStep ==
    /\ pc = "transform"
    /\ studies_data' = TransformRawData(data_file)
    /\ pc' = "load_studies"
    /\ UNCHANGED <<fetchVars, exit_code, run, registry, nct_id_to_study_id,
                   related_data, validation_results, storeVars, call, history>>

\* Step 3: load_studies(studies_data, engine).
LoadStudiesStep ==
    /\ pc = "load_studies"
    /\ \E failAt \in 0..Len(studies_data) :
          LET r == LoadStudies(studies_data, studies, failAt)
              h == AfterRaise("related")
          IN /\ studies' = r.table
             /\ studies_data' = r.data
             /\ call' = [op |-> "load_studies", input |-> studies_data,
                         pre |-> studies, failAt |-> IF r.ok THEN 0 ELSE failAt, ok |-> r.ok, ret |-> r.ret]
             /\ IF r.ok
                THEN /\ nct_id_to_study_id' = r.ret
                     /\ pc' = "related"
                     /\ UNCHANGED <<exit_code, history>>
                ELSE /\ pc' = h.pc
                     /\ exit_code' = h.exit_code
                     /\ history' = IF h.pc = "failed"
                                   THEN Finished(history, data_file, FALSE,
                                   Counts(r.table, conditions, locations, sponsors))
                                   ELSE history
                     /\ UNCHANGED nct_id_to_study_id
    /\ UNCHANGED <<fetchVars, run, registry, related_data, validation_results,
                   conditions, locations, sponsors>>

\* transform_related_tables(data_file, nct_id_to_study_id).
RelatedStep ==
    /\ pc = "related"
    /\ related_data' = TransformRelatedTables(data_file, nct_id_to_study_id)
    /\ pc' = "load_conditions"
    /\ UNCHANGED <<fetchVars, exit_code, run, registry, studies_data,
                   nct_id_to_study_id, validation_results, storeVars, call, history>>

LoadConditionsStep ==
    /\ pc = "load_conditions"
    /\ \E failAt \in 0..Len(related_data.conditions) :
          LET r == LoadConditions(related_data.conditions, conditions, failAt)
              h == AfterRaise("load_locations")
          IN /\ conditions' = r.table
             /\ call' = [op |-> "load_conditions", input |-> related_data.conditions,
                         pre |-> conditions, failAt |-> IF r.ok THEN 0 ELSE failAt, ok |-> r.ok, ret |-> r.ret]
             /\ pc' = IF r.ok THEN "load_locations" ELSE h.pc
             /\ exit_code' = IF r.ok THEN exit_code ELSE h.exit_code
             /\ history' = IF ~r.ok /\ h.pc = "failed"
                           THEN Finished(history, data_file, FALSE,
                                   Counts(studies, r.table, locations, sponsors))
                           ELSE history
    /\ UNCHANGED <<fetchVars, mainVars, studies, locations, sponsors>>

LoadLocationsStep ==
    /\ pc = "load_locations"
    /\ \E failAt \in 0..Len(related_data.locations) :
          LET r == LoadLocations(related_data.locations, locations, failAt)
              h == AfterRaise("load_sponsors")
          IN /\ locations' = r.table
             /\ call' = [op |-> "load_locations", input |-> related_data.locations,
                         pre |-> locations, failAt |-> IF r.ok THEN 0 ELSE failAt, ok |-> r.ok, ret |-> r.ret]
             /\ pc' = IF r.ok THEN "load_sponsors" ELSE h.pc
             /\ exit_code' = IF r.ok THEN exit_code ELSE h.exit_code
             /\ history' = IF ~r.ok /\ h.pc = "failed"
                           THEN Finished(history, data_file, FALSE,
                                   Counts(studies, conditions, r.table, sponsors))
                           ELSE history
    /\ UNCHANGED <<fetchVars, mainVars, studies, conditions, sponsors>>

LoadSponsorsStep ==
    /\ pc = "load_sponsors"
    /\ \E failAt \in 0..Len(related_data.sponsors) :
          LET r == LoadSponsors(related_data.sponsors, sponsors, failAt)
              h == AfterRaise("validate")
          IN /\ sponsors' = r.table
             /\ call' = [op |-> "load_sponsors", input |-> related_data.sponsors,
                         pre |-> sponsors, failAt |-> IF r.ok THEN 0 ELSE failAt, ok |-> r.ok, ret |-> r.ret]
             /\ pc' = IF r.ok THEN "validate" ELSE h.pc
             /\ exit_code' = IF r.ok THEN exit_code ELSE h.exit_code
             /\ history' = IF ~r.ok /\ h.pc = "failed"
                           THEN Finished(history, data_file, FALSE,
                                   Counts(studies, conditions, locations, r.table))
                           ELSE history
    /\ UNCHANGED <<fetchVars, mainVars, studies, conditions, locations>>

\* Step 4: validate_data(engine), then the run ends normally.
ValidateStep ==
    /\ pc = "validate"
    /\ validation_results' = ValidateData(studies, conditions, locations, sponsors)
    /\ pc' = "done"
    /\ exit_code' = <<0>>
    /\ history' = Finished(history, data_file, TRUE,
                                   Counts(studies, conditions, locations, sponsors))
    /\ UNCHANGED <<fetchVars, run, registry, studies_data, nct_id_to_study_id,
                   related_data, storeVars, call>>

\* An exception outside a loader call (the raw log cannot be read, the
\* store cannot be opened) or Ctrl-C between two steps: main's handlers.
Running == {"fetch", "exhausted", "transform", "load_studies", "related",
            "load_conditions", "load_locations", "load_sponsors", "validate"}

Interrupt ==
    /\ pc \in Running
    /\ pc' = "failed"
    /\ exit_code' = <<1>>
    /\ history' = Finished(history, data_file, FALSE,
                                   Counts(studies, conditions, locations, sponsors))
    /\ UNCHANGED <<fetchVars, mainVars, storeVars, call>>

Logs == UNION { [1..n -> DocIds] : n \in 0..MaxLog }

Init ==
    /\ registry \in Logs
    /\ upstream = <<>>
    /\ max_records = None
    /\ page_size = api_page_size
    /\ page_token = 0
    /\ total_fetched = 0
    /\ requests = <<>>
    /\ data_file = <<>>
    /\ metadata_file = None
    /\ events = <<>>
    /\ raw_dir = <<>>
    /\ pc = "idle"
    /\ exit_code = None
    /\ run = 0
    /\ studies_data = <<>>
    /\ nct_id_to_study_id = EmptyMap
    /\ related_data = NoRelated
    /\ validation_results = None
    /\ studies = <<>>
    /\ conditions = <<>>
    /\ locations = <<>>
    /\ sponsors = <<>>
    /\ call = NoCall
    /\ history = NoHistory

Next ==
    \/ StartRun
    \/ FetchPage
    \/ FetchLoopExit
    \/ SaveMetadata
    \/ TransformStep
    \/ LoadStudiesStep
    \/ RelatedStep
    \/ LoadConditionsStep
    \/ LoadLocationsStep
    \/ LoadSponsorsStep
    \/ ValidateStep
    \/ Interrupt

Spec == Init /\ [][Next]_vars

\* ------------------------------------------------- the two transform passes
\* main from transform_raw_data to transform_related_tables, on a raw log
\* of any lines and an empty store.
RawLogs == UNION { [1..n -> LineIds] : n \in 0..MaxLog }

InitTransform ==
    /\ data_file \in RawLogs
    /\ registry = <<>>
    /\ upstream = <<>>
    /\ max_records = None
    /\ page_size = api_page_size
    /\ page_token = 0
    /\ total_fetched = 0
    /\ requests = <<>>
    /\ metadata_file = None
    /\ events = <<>>
    /\ raw_dir = <<>>
    /\ pc = "transform"
    /\ exit_code = None
    /\ run = 1
    /\ studies_data = <<>>
    /\ nct_id_to_study_id = EmptyMap
    /\ related_data = NoRelated
    /\ validation_results = None
    /\ studies = <<>>
    /\ conditions = <<>>
    /\ locations = <<>>
    /\ sponsors = <<>>
    /\ call = NoCall
    /\ history = NoHistory

NextTransform == TransformStep \/ LoadStudiesStep \/ RelatedStep

SpecTransform == InitTransform /\ [][NextTransform]_vars

\* ------------------------------------------------- one run on a raw log
\* main from transform_raw_data to the end, on a raw log whose natural ids
\* are pairwise distinct and an empty store.
DistinctIds(lines) ==
    \A i, j \in 1..Len(lines) :
       i # j /\ NctId(lines[i]) # NoneStr => NctId(lines[i]) # NctId(lines[j])

InitPipeline ==
    /\ InitTransform
    /\ DistinctIds(data_file)

NextPipeline ==
    \/ TransformStep
    \/ LoadStudiesStep
    \/ RelatedStep
    \/ LoadConditionsStep
    \/ LoadLocationsStep
    \/ LoadSponsorsStep
    \/ ValidateStep

SpecPipeline == InitPipeline /\ [][NextPipeline]_vars

\* --------------------------------------------------- the pure functions
\* parse_date, parse_phase and transform_study's enrollment, called on
\* their own; call holds the latest call and what it returned.
YearParts ==
    { <<"2", "0", "2", "3">>, <<"2", "0", "2", "4">>,
      <<"0", "0", "0", "0">>, <<"2", "0", "x", "3">> }

MonthParts ==
    { <<"0", "1">>, <<"0", "2">>, <<"1", "2">>, <<"1", "3">>, <<"0", "0">>,
      <<"1">>, <<"x", "y">> }

DayParts ==
    { <<"0", "1">>, <<"2", "9">>, <<"3", "0">>, <<"3", "1">>, <<"3", "2">>,
      <<"0", "0">>, <<"5">>, <<" ", "5">> }

\* Nothing, or a time of day after the date, cut to MaxSuffix characters.
MaxSuffix == 3

TimeOfDay == <<"T", "0", "0", ":", "0", "0">>

Suffixes == { <<>>, Take(TimeOfDay, MaxSuffix) }

DateStrings ==
    {NoDate, <<>>, <<"i", "n", "v", "a", "l", "i", "d", "-", "d", "a", "t", "e">>}
    \cup YearParts
    \cup { y \o <<"-">> \o m : y \in YearParts, m \in MonthParts }
    \cup { y \o <<"-">> \o m \o <<"-">> \o d \o x :
             y \in YearParts, m \in MonthParts, d \in DayParts, x \in Suffixes }

ParseDateCall ==
    /\ pc = "idle"
    /\ \E date_str \in DateStrings :
          call' = [op |-> "parse_date", input |-> date_str,
                   ok |-> TRUE, ret |-> ParseDate(date_str)]
    /\ UNCHANGED <<fetchVars, pc, exit_code, mainVars, storeVars, history>>

\* The phase tags, and the lists of at most MaxTags of them.
MaxTags == 3

PhaseTags == { <<"P", "1">>, <<"P", "2">>, <<"N", "A">>, <<>> }

PhaseLists ==
    {None} \cup { <<tags>> : tags \in UNION { [1..n -> PhaseTags] : n \in 0..MaxTags } }

ParsePhaseCall ==
    /\ pc = "idle"
    /\ \E phase_list \in PhaseLists :
          call' = [op |-> "parse_phase", input |-> phase_list,
                   ok |-> TRUE, ret |-> ParsePhase(phase_list)]
    /\ UNCHANGED <<fetchVars, pc, exit_code, mainVars, storeVars, history>>

\* The counts a source gives, and none.
MaxCount == 3

EnrollmentCounts == {None} \cup { <<n>> : n \in 0..MaxCount }

TransformStudyCall ==
    /\ pc = "idle"
    /\ \E count \in EnrollmentCounts :
          call' = [op |-> "transform_study", input |-> count,
                   ok |-> TRUE, ret |-> Enrollment(count)]
    /\ UNCHANGED <<fetchVars, pc, exit_code, mainVars, storeVars, history>>

InitParse ==
    /\ data_file = <<>>
    /\ registry = <<>>
    /\ upstream = <<>>
    /\ max_records = None
    /\ page_size = api_page_size
    /\ page_token = 0
    /\ total_fetched = 0
    /\ requests = <<>>
    /\ metadata_file = None
    /\ events = <<>>
    /\ raw_dir = <<>>
    /\ pc = "idle"
    /\ exit_code = None
    /\ run = 0
    /\ studies_data = <<>>
    /\ nct_id_to_study_id = EmptyMap
    /\ related_data = NoRelated
    /\ validation_results = None
    /\ studies = <<>>
    /\ conditions = <<>>
    /\ locations = <<>>
    /\ sponsors = <<>>
    /\ call = NoCall
    /\ history = NoHistory

NextParse == ParseDateCall \/ ParsePhaseCall \/ TransformStudyCall

SpecParse == InitParse /\ [][NextParse]_vars

\* -------------------------------------------------------- the validator
\* validate_data on any store, orphans, duplicate natural ids and inverted
\* dates included, as often as MaxRuns times.
MaxRows == 2

StoredDates ==
    {NoDate, ParseDate(StartDate(1)), ParseDate(StartDate(2))}

StoredStudies ==
    [nct_id : {"NCT1", "NCT2"}, start_date : StoredDates,
     completion_date : StoredDates]

StudiesTables == UNION { [1..n -> StoredStudies] : n \in 0..MaxRows }

\* No row, a row of the first study, or a row of a study that is not there.
DependentTables == { <<>>, <<[study_id |-> 1]>>, <<[study_id |-> MaxRows + 1]>> }

ValidateCall ==
    /\ pc = "idle"
    /\ run < MaxRuns
    /\ run' = run + 1
    /\ LET results == ValidateData(studies, conditions, locations, sponsors)
           pre == [studies |-> studies, conditions |-> conditions,
                   locations |-> locations, sponsors |-> sponsors]
       IN IF ValidationRaises(results)
          THEN /\ call' = [op |-> "validate_data", pre |-> pre, ok |-> FALSE,
                           ret |-> None]
               /\ UNCHANGED validation_results
          ELSE /\ call' = [op |-> "validate_data", pre |-> pre, ok |-> TRUE,
                           ret |-> results]
               /\ validation_results' = results
    /\ UNCHANGED <<fetchVars, pc, exit_code, registry, studies_data,
                   nct_id_to_study_id, related_data, storeVars, history>>

InitValidate ==
    /\ studies \in StudiesTables
    /\ conditions \in DependentTables
    /\ locations \in DependentTables
    /\ sponsors \in DependentTables
    /\ data_file = <<>>
    /\ registry = <<>>
    /\ upstream = <<>>
    /\ max_records = None
    /\ page_size = api_page_size
    /\ page_token = 0
    /\ total_fetched = 0
    /\ requests = <<>>
    /\ metadata_file = None
    /\ events = <<>>
    /\ raw_dir = <<>>
    /\ pc = "idle"
    /\ exit_code = None
    /\ run = 0
    /\ studies_data = <<>>
    /\ nct_id_to_study_id = EmptyMap
    /\ related_data = NoRelated
    /\ validation_results = None
    /\ call = NoCall
    /\ history = NoHistory

NextValidate == ValidateCall

SpecValidate == InitValidate /\ [][NextValidate]_vars

\* ========================================================== properties
\* The natural ids a load_studies call is given, and the rows of a studies
\* table that hold a natural id.
BatchIds(data) == { data[i]["_nct_id"] : i \in 1..Len(data) }

RowsFor(table, x) == { i \in 1..Len(table) : table[i].nct_id = x }

Returned(op) == call.op = op /\ call.ok

Raised(op) == call.op = op /\ ~call.ok

KnownIds(data, table) == { x \in BatchIds(data) : RowsFor(table, x) # {} }

\* C1: study load is idempotent across calls. When a load_studies call
\* returns, every natural id of its batch that the store already held is
\* mapped to the study_id of the row that held it, that row is still the only
\* row for the id, and a batch of known ids only leaves the row count as
\* it was.
IdempotentStudyLoad ==
    Returned("load_studies") =>
        /\ \A x \in KnownIds(call.input, call.pre) :
              /\ x \in DOMAIN call.ret
              /\ RowsFor(call.pre, x) = {call.ret[x]}
              /\ RowsFor(studies, x) = {call.ret[x]}
        /\ KnownIds(call.input, call.pre) = BatchIds(call.input)
              => Len(studies) = Len(call.pre)

\* A later run's load_studies returned on a batch with an id loaded before.
ReloadedKnownId ==
    /\ run = 2
    /\ Returned("load_studies")
    /\ KnownIds(call.input, call.pre) # {}

\* C2: a batch that holds a new natural id twice. The statement is that
\* the call completes, creates exactly one row for the id and maps the id
\* to it, wherever the two occurrences sit. No fault is injected here.
DuplicateNewIds(data, table) ==
    { x \in BatchIds(data) \ KnownIds(data, table) :
        \E i, j \in 1..Len(data) :
            i < j /\ data[i]["_nct_id"] = x /\ data[j]["_nct_id"] = x }

DuplicateInBatchYieldsOneRow ==
    (call.op = "load_studies" /\ call.failAt = 0) =>
        \A x \in DuplicateNewIds(call.input, call.pre) :
            /\ call.ok
            /\ Cardinality(RowsFor(studies, x)) = 1
            /\ x \in DOMAIN call.ret
            /\ RowsFor(studies, x) = {call.ret[x]}

\* C3: no orphans. In every reachable store every conditions, locations
\* and sponsors row names an existing studies row, and a validation that
\* ran reports 0 for the three orphan counts.
NoOrphans ==
    /\ \A i \in 1..Len(conditions) : conditions[i].study_id \in 1..Len(studies)
    /\ \A i \in 1..Len(locations) : locations[i].study_id \in 1..Len(studies)
    /\ \A i \in 1..Len(sponsors) : sponsors[i].study_id \in 1..Len(studies)
    /\ pc = "done" =>
          /\ validation_results.foreign_keys.orphaned_conditions = 0
          /\ validation_results.foreign_keys.orphaned_locations = 0
          /\ validation_results.foreign_keys.orphaned_sponsors = 0

\* A run validated a store that an earlier, different or failed, run had
\* already written to.
ValidatedAfterBrokenRun ==
    /\ pc = "done"
    /\ ~history.uniform
    /\ Len(studies) >= 2
    /\ Len(conditions) > 0 /\ Len(locations) > 0 /\ Len(sponsors) > 0

\* C4: the mapping load_studies returns has exactly the natural ids of the
\* batch as its keys, new and pre-existing alike, and each entry is the
\* study_id of the studies row that holds the id.
MappingCoversBatch ==
    Returned("load_studies") =>
        /\ DOMAIN call.ret = BatchIds(call.input)
        /\ \A x \in DOMAIN call.ret :
              /\ call.ret[x] \in 1..Len(studies)
              /\ studies[call.ret[x]].nct_id = x

\* The batch of a returned call mixed a known id with a new one.
MappedKnownAndNew ==
    /\ Returned("load_studies")
    /\ KnownIds(call.input, call.pre) # {}
    /\ KnownIds(call.input, call.pre) # BatchIds(call.input)

\* C5: no row is ever updated or deleted. Every step leaves each table a
\* prefix of what it becomes: the rows there keep their ids and all their
\* column values, and rows are only added.
OnlyAdds ==
    /\ IsPrefix(studies, studies')
    /\ IsPrefix(conditions, conditions')
    /\ IsPrefix(locations, locations')
    /\ IsPrefix(sponsors, sponsors')

RowsNeverChange == [][OnlyAdds]_vars

\* load_studies returned on a record that differs from the stored row of
\* the same natural id.
ReloadedWithOtherContent ==
    /\ Returned("load_studies")
    /\ \E i \in 1..Len(call.input) :
          \E j \in RowsFor(call.pre, call.input[i]["_nct_id"]) :
              call.pre[j].title # call.input[i].title

\* C6: the dependent loaders insert every given row and return how many
\* they were given; so after k completed runs on one raw log the studies
\* count is the first run's and each dependent table holds k times its
\* first-run count.
DependentsDuplicateOnRerun ==
    /\ Returned("load_conditions") =>
          call.ret = Len(call.input) /\ conditions = call.pre \o call.input
    /\ Returned("load_locations") =>
          call.ret = Len(call.input) /\ locations = call.pre \o call.input
    /\ Returned("load_sponsors") =>
          call.ret = Len(call.input) /\ sponsors = call.pre \o call.input
    /\ (pc = "done" /\ history.uniform) =>
          /\ Len(studies) = history.counts.studies
          /\ Len(conditions) = history.full * history.counts.conditions
          /\ Len(locations) = history.full * history.counts.locations
          /\ Len(sponsors) = history.full * history.counts.sponsors

\* The second completed run on the same raw log, with rows in every table.
RerunOnSameLog ==
    /\ pc = "done"
    /\ history.uniform
    /\ history.full = 2
    /\ history.counts.studies > 0
    /\ history.counts.conditions > 0
    /\ history.counts.locations > 0
    /\ history.counts.sponsors > 0

\* C7: a loader call is atomic. A call that raised left its table as it
\* found it, the rows of its earlier insert groups included; a call that
\* returned left all of its rows in the table.
AllVisible(rows, pre, table) ==
    /\ Len(table) = Len(pre) + Len(rows)
    /\ \A k \in 1..Len(rows) : table[Len(pre) + k] = rows[k]

LoaderCallAtomic ==
    /\ Raised("load_studies") => studies = call.pre
    /\ Raised("load_conditions") => conditions = call.pre
    /\ Raised("load_locations") => locations = call.pre
    /\ Raised("load_sponsors") => sponsors = call.pre
    /\ Returned("load_studies") =>
          \A i \in 1..Len(call.input) :
              \E j \in 1..Len(studies) :
                  /\ studies[j].nct_id = call.input[i]["_nct_id"]
                  /\ j > Len(call.pre) =>
                        \E h \in 1..i : studies[j] = Pop(call.input[h], "_nct_id")
    /\ Returned("load_conditions") => AllVisible(call.input, call.pre, conditions)
    /\ Returned("load_locations") => AllVisible(call.input, call.pre, locations)
    /\ Returned("load_sponsors") => AllVisible(call.input, call.pre, sponsors)

\* An INSERT of load_studies raised after a whole insert group had been
\* written.
RaisedAfterFirstGroup ==
    /\ Raised("load_studies")
    /\ call.failAt > batch_size

\* C8: a failing step ends the run. The step that fails takes the run to
\* its failed end with exit code 1, leaves the raw log lines and the
\* committed rows where they were, and after it no step of that run is
\* taken: the next step, if any, starts another run.
RequestRefused ==
    /\ Len(requests') = Len(requests) + 1
    /\ FetchStudiesPage(page_token).status # OkStatus

CallRaised == call' # call /\ call'.op # "none" /\ ~call'.ok

FailingStep ==
    /\ (pc # "failed" /\ (RequestRefused \/ CallRaised \/ pc' = "failed")) =>
          /\ pc' = "failed"
          /\ exit_code' = <<1>>
          /\ data_file' = data_file
          /\ storeVars' = storeVars
    /\ pc = "failed" => run' = run + 1 /\ pc' = "fetch" /\ storeVars' = storeVars

FailureEndsRun == [][FailingStep]_vars

\* The first run failed in load_conditions, with raw log lines written
\* and studies rows committed.
FailedAfterStudiesLoaded ==
    /\ run = 1
    /\ pc = "failed"
    /\ Raised("load_conditions")
    /\ data_file # <<>>
    /\ Len(studies) > 0

\* The documents of pages 1..k of the upstream, in order.
RECURSIVE Concat(_)
Concat(k) == IF k = 0 THEN <<>> ELSE Concat(k - 1) \o upstream[k].studies

\* The cap as the caller gave it; no argument means the configured default.
GivenCap == IF max_records = None THEN api_max_records ELSE max_records[1]

\* The first page that ends the listing: no continuation token, or no
\* records.
LastPage(k) == ~upstream[k].token \/ upstream[k].studies = <<>>

EndOfPages ==
    CHOOSE k \in 1..Len(upstream) : LastPage(k) /\ \A j \in 1..(k - 1) : ~LastPage(j)

\* After k page responses one of the three stop events has happened.
StopEvent(k) ==
    \/ Len(Concat(k)) >= GivenCap
    \/ k >= 1 /\ LastPage(k)

FirstStop ==
    CHOOSE k \in 0..Len(upstream) : StopEvent(k) /\ \A j \in 0..(k - 1) : ~StopEvent(j)

\* C9: a completed fetch stopped at the first of the three events (a page
\* without token, a page without records, max_records documents yielded);
\* and when page k is the first page without a token and fewer than
\* max_records documents exist, the documents of pages 1..k were yielded in
\* order with exactly k page requests.
StopsAtFirstEvent ==
    pc = "transform" =>
        /\ Len(requests) = FirstStop
        /\ data_file = Take(Concat(FirstStop), GivenCap)
        /\ \A k \in 1..Len(upstream) :
              ( /\ \A j \in 1..k : upstream[j].status = OkStatus
                /\ ~upstream[k].token
                /\ \A j \in 1..(k - 1) : upstream[j].token
                /\ Len(Concat(k)) < GivenCap )
              => data_file = Concat(k) /\ Len(requests) = k

\* C10: the pagination cap. For a given max_records >= 0 at most
\* max_records documents are yielded, whatever the pages carry, and exactly
\* max_records once the fetch has completed on pages that supply more.
PaginationCap ==
    max_records # None =>
        /\ Len(data_file) <= max_records[1]
        /\ (pc = "transform" /\ Len(Concat(EndOfPages)) > max_records[1])
              => Len(data_file) = max_records[1]

\* C11: every page request asks for min(configured page size, max_records
\* minus the documents already yielded) records, which is at least 1 and
\* at most the configured page size. max_records is the bound the loop
\* runs on: the caller's value, or the configured default in its place.
PageRequestAsksForQuota ==
    Len(requests') = Len(requests) + 1 =>
        LET asked == requests'[Len(requests')].pageSize
        IN /\ asked = Min(page_size, OrDefault(max_records) - total_fetched)
           /\ asked >= 1
           /\ asked <= page_size

PageGets == { i \in 1..Len(events) : events[i].kind = "get" /\ events[i].url = "studies" }

ResponseTo(i) == FetchStudiesPage(events[i].pageToken)

Succeeded(i) ==
    ~NoResponse(ResponseTo(i).status) /\ ~RaisesForStatus(ResponseTo(i).status)

\* What the client did after the page request at i, its yields aside.
AfterYields(i) == { j \in (i + 1)..Len(events) : events[j].kind # "yield" }

PrecededByShortDelay ==
    \A i \in PageGets : i > 1 /\ events[i - 1] = Sleep(page_delay)

\* C12 as stated: every page request comes right after the 1.0 s delay, and
\* every successfully fetched page is followed by the 2.0 s delay before the
\* client does anything else.
DelayAfterEverySuccessfulPage ==
    /\ PrecededByShortDelay
    /\ \A i \in PageGets :
          Succeeded(i) => i < Len(events) /\ events[i + 1] = Sleep(next_page_delay)

\* C12, amended: every page request comes right after the 1.0 s delay; a
\* successfully fetched page that has records and a continuation token is
\* followed, once its documents have been yielded, by the 2.0 s delay, and
\* only then by anything else; after a page without records or without
\* token the client yields what it has and does nothing more.
PacedBetweenPages ==
    /\ PrecededByShortDelay
    /\ \A i \in PageGets :
          Succeeded(i) =>
              IF ResponseTo(i).studies # <<>> /\ ResponseTo(i).token
              THEN /\ AfterYields(i) # {}
                   /\ \E j \in AfterYields(i) :
                         /\ events[j] = Sleep(next_page_delay)
                         /\ \A h \in AfterYields(i) : j <= h
              ELSE AfterYields(i) = {}

\* Two pages were fetched one after the other, and the second ended the
\* stream.
FetchedTwoPagesInARow ==
    /\ pc = "transform"
    /\ Cardinality(PageGets) >= 2
    /\ data_file # <<>>

\* C13: the client makes exactly one warm-up request, before any page
\* request, and its failure does not abort anything: the constructor
\* returns and fetching starts as after a successful warm-up, so a fetch
\* only ever fails on a failed page request.
HomeGets == { i \in 1..Len(events) : events[i].kind = "get" /\ events[i].url = "home" }

WarmUpOnceAndSwallowed ==
    /\ HomeGets = {1}
    /\ PageGets = {} => pc \in {"fetch", "exhausted", "transform"}
    /\ pc = "failed" => \E i \in PageGets : ~Succeeded(i)

\* The warm-up failed and the fetch went on to write documents and finish.
FetchedAfterFailedWarmUp ==
    /\ events[1] = HomeGet(FALSE)
    /\ pc = "transform"
    /\ data_file # <<>>

\* C14: the client never retries. A page request that failed (an HTTP
\* error of any class, or no response) is the last page request, its
\* exception has reached the caller, and no page is requested twice.
NeverRetries ==
    /\ \A i \in PageGets :
          ~Succeeded(i) =>
              /\ \A j \in PageGets : j <= i
              /\ pc = "failed"
    /\ \A i, j \in PageGets :
          i # j => events[i].pageToken # events[j].pageToken

\* The second page request failed after the first page had been written.
FailedOnSecondPage ==
    /\ pc = "failed"
    /\ Cardinality(PageGets) >= 2
    /\ data_file # <<>>

\* The class the statement gives to an error status.
ExpectedClass(status, has_token) ==
    CASE status = 403 -> "waf_block"
      [] status = 400 /\ has_token -> "stale_page_token"
      [] status \in {429, 500, 502, 503, 504} -> "retryable"
      [] OTHER -> "other_http_error"

ClassifiedAs(i) ==
    /\ i + 1 = Len(events)
    /\ events[i + 1] = Logged(ExpectedClass(ResponseTo(i).status, events[i].pageToken # 0))

\* C15 as stated: every page response whose status is not 2xx is given
\* exactly one class, by status and token.
EveryNon2xxClassified ==
    \A i \in PageGets :
        (~NoResponse(ResponseTo(i).status) /\ ResponseTo(i).status # OkStatus)
            => ClassifiedAs(i)

\* C15, amended: every page response that is an HTTP error (status 4xx or
\* 5xx) is given exactly one class: 403 a defensive block, 400 on a request
\* with a token a stale token, 429/500/502/503/504 transient, anything else
\* a hard failure; a response with another status is no error to the client.
EveryHttpErrorClassified ==
    \A i \in PageGets :
        IF RaisesForStatus(ResponseTo(i).status) THEN ClassifiedAs(i)
        ELSE NoResponse(ResponseTo(i).status)
             \/ i = Len(events)
             \/ events[i + 1].kind # "log"

\* A 400 came back for a request that carried a token.
StaleTokenLogged ==
    \E i \in PageGets :
        /\ ResponseTo(i).status = 400
        /\ events[i].pageToken # 0
        /\ pc = "failed"

\* C16: the raw store is append-only across runs. Whatever the clock shows
\* when a run starts, the run writes a raw log the directory did not hold,
\* and every file an earlier run wrote is there afterwards with the content
\* it had.
KeepsEarlierFiles ==
    /\ \A f \in DOMAIN raw_dir : f \in DOMAIN raw_dir' /\ raw_dir'[f] = raw_dir[f]
    /\ run' # run => DOMAIN raw_dir' # DOMAIN raw_dir

RawStoreAppendOnly == [][KeepsEarlierFiles]_vars

\* The documents the stream has yielded, in order.
Yielded ==
    LET ys == SelectSeq(events, LAMBDA e : e.kind = "yield")
    IN [j \in 1..Len(ys) |-> ys[j].doc]

\* C17: the metadata file is written only once the stream is exhausted
\* without error, with total_studies the number of lines of the raw log;
\* when the fetch raises, the documents yielded before that are the raw
\* log and the run writes no metadata file.
MetadataOnlyAfterExhaustion ==
    /\ data_file = Yielded
    /\ metadata_file # None =>
          /\ pc = "transform"
          /\ \A i \in PageGets : Succeeded(i)
          /\ metadata_file.total_studies = Len(data_file)
    /\ pc = "transform" => metadata_file # None
    /\ pc = "failed" => metadata_file = None

\* The fetch raised after two documents had been written.
RaisedWithLinesWritten ==
    /\ pc = "failed"
    /\ Len(data_file) >= 2

\* A line has an extractable natural id.
ExtractableId(d) == NctId(d) # NoneStr

WithId(lines) == SelectSeq(lines, ExtractableId)

\* C18: skip accounting. For a raw log of N lines of which K have no
\* extractable natural id, transform_raw_data yields exactly N-K Study
\* records, one for each line that has one, in file order.
SkipAccounting ==
    pc = "load_studies" =>
       LET N == Len(data_file)
           K == N - Len(WithId(data_file))
       IN /\ Len(studies_data) = N - K
          /\ \A i \in 1..Len(studies_data) :
                studies_data[i]["_nct_id"] = NctId(WithId(data_file)[i])

\* Field extraction raises on a line, in the study pass and in the
\* dependent pass.
StudyExtractionRaises(d) ==
    \/ JSONDecodeError(d)
    \/ NctIdRaises(d)
    \/ ExtractableId(d) /\ TransformStudyRaises(d)

RelatedExtractionRaises(d) ==
    \/ JSONDecodeError(d)
    \/ NctIdRaises(d)
    \/ /\ ExtractableId(d)
       /\ \/ TransformConditionsRaises(d)
          \/ TransformLocationsRaises(d)
          \/ TransformSponsorsRaises(d)

\* C19: a malformed line never aborts a transform pass, and each pass
\* returns the records it returns on the raw log with the malformed lines
\* (bad JSON, blank, field extraction raises) removed.
MalformedLinesAreSkipped ==
    /\ pc = "load_studies" =>
          studies_data = TransformRawData(
              SelectSeq(data_file, LAMBDA d : ~StudyExtractionRaises(d)))
    /\ pc = "load_conditions" =>
          related_data = TransformRelatedTables(
              SelectSeq(data_file, LAMBDA d : ~RelatedExtractionRaises(d)),
              nct_id_to_study_id)

\* The record of a document leaves absent what the document does not have.
AbsentWhereMissing(d, rec) ==
    /\ Shape(d).descriptionModule # Present => rec.brief_summary = NoneStr
    /\ Shape(d).statusModule # Present =>
          rec.status = NoneStr /\ rec.start_date = NoDate
    /\ Shape(d).startDateStruct # Present => rec.start_date = NoDate
    /\ Shape(d).designModule # Present => rec.enrollment_type = NoneStr
    /\ Shape(d).enrollmentInfo # Present => rec.enrollment_type = NoneStr

\* C20: defensive field extraction. Every document with an extractable
\* natural id gets a Study record, whatever other nested structures are
\* missing or null, and the fields whose path is missing are absent in it.
DefensiveFieldExtraction ==
    pc = "load_studies" =>
       \A i \in 1..Len(data_file) :
          LET d == data_file[i]
          IN ExtractableId(d) =>
                \E j \in 1..Len(studies_data) :
                   /\ studies_data[j]["_nct_id"] = NctId(d)
                   /\ AbsentWhereMissing(d, studies_data[j])

\* A string in YYYY-MM-DD form that names a day of the calendar.
CalendarDate(s) ==
    /\ Len(s) = 10
    /\ IsDigits(SubSeq(s, 1, 4)) /\ IsDigits(SubSeq(s, 6, 7))
    /\ IsDigits(SubSeq(s, 9, 10))
    /\ s[5] = "-" /\ s[8] = "-"
    /\ NumVal(SubSeq(s, 1, 4)) >= 1
    /\ NumVal(SubSeq(s, 6, 7)) \in 1..12
    /\ NumVal(SubSeq(s, 9, 10)) \in
          1..DaysIn(NumVal(SubSeq(s, 1, 4)), NumVal(SubSeq(s, 6, 7)))

\* A string that is not a date: empty, with a character that is neither a
\* digit nor a hyphen where the date stands, or of a year-month or full
\* shape with a month or day out of range.
NotADate(s) ==
    \/ s = <<>>
    \/ s # NoDate /\ \E i \in 1..Min(Len(s), 10) : s[i] \notin Digits \cup {"-"}
    \/ /\ Len(s) = 7 /\ IsDigits(SubSeq(s, 1, 4)) /\ s[5] = "-"
       /\ IsDigits(SubSeq(s, 6, 7))
       /\ NumVal(SubSeq(s, 6, 7)) \notin 1..12
    \/ /\ Len(s) = 10 /\ IsDigits(SubSeq(s, 1, 4)) /\ s[5] = "-"
       /\ IsDigits(SubSeq(s, 6, 7)) /\ s[8] = "-" /\ IsDigits(SubSeq(s, 9, 10))
       /\ ~CalendarDate(s)

\* C21: for every input parse_date returns None or a valid calendar date in
\* YYYY-MM-DD form; a valid full date is returned unchanged, and a string
\* that is not a date returns None.
ParseDateValidOrNone ==
    call.op = "parse_date" =>
       /\ call.ret = NoDate \/ CalendarDate(call.ret)
       /\ CalendarDate(call.input) => call.ret = call.input
       /\ NotADate(call.input) => call.ret = NoDate

\* A year-month string YYYY-MM and a year-only string YYYY.
IsYearMonth(s) ==
    /\ Len(s) = 7
    /\ IsDigits(SubSeq(s, 1, 4)) /\ s[5] = "-" /\ IsDigits(SubSeq(s, 6, 7))
    /\ NumVal(SubSeq(s, 6, 7)) \in 1..12

IsYear(s) == Len(s) = 4 /\ IsDigits(s)

\* C22 as stated: every year-month string YYYY-MM gives YYYY-MM-01 and
\* every year-only string YYYY gives YYYY-01-01.
PartialDatesCoerced ==
    call.op = "parse_date" =>
       /\ IsYearMonth(call.input) =>
             call.ret = call.input \o <<"-", "0", "1">>
       /\ IsYear(call.input) =>
             call.ret = call.input \o <<"-", "0", "1", "-", "0", "1">>

\* C22: every year-month string YYYY-MM gives YYYY-MM-01, and every
\* year-only string YYYY from 0001 on gives YYYY-01-01.
PartialDatesCoercedFromYearOne ==
    call.op = "parse_date" =>
       /\ IsYearMonth(call.input) =>
             call.ret = call.input \o <<"-", "0", "1">>
       /\ IsYear(call.input) /\ NumVal(call.input) >= 1 =>
             call.ret = call.input \o <<"-", "0", "1", "-", "0", "1">>

\* parse_date was given a year on its own.
ParsedYearOnly ==
    /\ call.op = "parse_date"
    /\ IsYear(call.input)
    /\ NumVal(call.input) >= 1

\* Where tag k starts in the joined string, less one.
RECURSIVE Offset(_, _)
Offset(tags, k) ==
    IF k = 1 THEN 0 ELSE Offset(tags, k - 1) + Len(tags[k - 1]) + 2

\* C23: parse_phase returns the tags joined with ', ' in their order for a
\* list of one or more tags, and None for the empty list and for None.
PhasesJoined ==
    call.op = "parse_phase" =>
       IF call.input = None \/ call.input[1] = <<>>
       THEN call.ret = NoPhase
       ELSE LET tags == call.input[1]
                n == Len(tags)
            IN /\ Len(call.ret) = Offset(tags, n) + Len(tags[n])
               /\ \A k \in 1..n :
                     LET from == Offset(tags, k)
                     IN /\ SubSeq(call.ret, from + 1, from + Len(tags[k])) = tags[k]
                        /\ k < n =>
                              /\ call.ret[from + Len(tags[k]) + 1] = ","
                              /\ call.ret[from + Len(tags[k]) + 2] = " "

\* parse_phase was given two tags or more.
JoinedSeveralTags ==
    /\ call.op = "parse_phase"
    /\ call.input # None
    /\ Len(call.input[1]) >= 2
    /\ call.ret # NoPhase

\* C30: the Study record's enrollment is the source's count whenever the
\* source gives one, 0 included, and is absent only when it gives none.
EnrollmentIsSourceCount ==
    call.op = "transform_study" =>
       /\ call.input # None => call.ret = call.input
       /\ call.ret = None => call.input = None

\* C25: validate_data is purely observational. On any store, anomalies
\* included, and however often it runs, every row of every table is left
\* as it was and the call returns its report.
ValidationOnlyObserves ==
    /\ storeVars' = storeVars
    /\ call'.op = "validate_data" =>
          /\ call'.ok
          /\ call'.ret.counts.studies = Len(studies')

ValidateDataObservational == [][ValidationOnlyObserves]_vars

\* validate_data has run twice on a store with an orphan, a duplicate
\* natural id and an inverted pair of dates.
ValidatedAnomalousStoreTwice ==
    /\ call.op = "validate_data"
    /\ run = 2
    /\ ~validation_results.uniqueness.is_unique
    /\ validation_results.dates.date_inconsistencies > 0
    /\ validation_results.foreign_keys.orphaned_conditions > 0

\* C29: after load_studies returns, no input record still holds the
\* temporary key _nct_id, whether its natural id was in the store or was
\* inserted; no row of studies has a column of that name; and the records'
\* other fields are as they were.
TemporaryKeyRemoved ==
    Returned("load_studies") =>
       /\ Len(studies_data) = Len(call.input)
       /\ \A i \in 1..Len(studies_data) :
             /\ "_nct_id" \notin DOMAIN studies_data[i]
             /\ DOMAIN studies_data[i] = DOMAIN call.input[i] \ {"_nct_id"}
             /\ \A f \in DOMAIN studies_data[i] :
                   studies_data[i][f] = call.input[i][f]
       /\ \A j \in 1..Len(studies) : "_nct_id" \notin DOMAIN studies[j]

\* load_studies returned from a batch with a record whose natural id was
\* in the store and a record that it inserted.
LoadedKnownAndNewRecords ==
    /\ Returned("load_studies")
    /\ \E i, j \in 1..Len(call.input) :
          /\ \E k \in 1..Len(call.pre) :
                call.pre[k].nct_id = call.input[i]["_nct_id"]
          /\ \A k \in 1..Len(call.pre) :
                call.pre[k].nct_id # call.input[j]["_nct_id"]

\* The lines that give rows in the dependent pass: a natural id that the
\* mapping knows.
MappedLines(lines, map) ==
    SelectSeq(lines, LAMBDA d : ExtractableId(d) /\ NctId(d) \in DOMAIN map)

\* The number of rows the lines of a raw log list under a document field.
RECURSIVE Listed(_, _)
Listed(lines, field) ==
    IF lines = <<>> THEN 0
    ELSE Len(Doc(Head(lines))[field]) + Listed(Tail(lines), field)

\* C26: every row transform_related_tables emits carries the study_id the
\* mapping gives to the natural id of the document it was extracted from,
\* and a document whose natural id is missing or not in the mapping
\* contributes no row.
RowsCarryMappedStudyId ==
    pc = "load_conditions" =>
       LET map == nct_id_to_study_id
           from == MappedLines(data_file, map)
       IN /\ \A r \in 1..Len(related_data.conditions) :
                \E i \in 1..Len(from) :
                   /\ related_data.conditions[r].study_id = map[NctId(from[i])]
                   /\ \E j \in 1..Len(Doc(from[i]).conditions) :
                         related_data.conditions[r].condition_name
                            = Doc(from[i]).conditions[j]
          /\ \A r \in 1..Len(related_data.locations) :
                \E i \in 1..Len(from) :
                   /\ related_data.locations[r].study_id = map[NctId(from[i])]
                   /\ \E j \in 1..Len(Doc(from[i]).locations) :
                         related_data.locations[r].facility
                            = Doc(from[i]).locations[j]
          /\ \A r \in 1..Len(related_data.sponsors) :
                \E i \in 1..Len(from) :
                   /\ related_data.sponsors[r].study_id = map[NctId(from[i])]
                   /\ related_data.sponsors[r].agency
                         \in {Doc(from[i]).lead}
                             \cup {Doc(from[i]).collaborators[j] :
                                     j \in 1..Len(Doc(from[i]).collaborators)}
          /\ Len(related_data.conditions) <= Listed(from, "conditions")
          /\ Len(related_data.locations) <= Listed(from, "locations")

\* The dependent pass ran on a raw log with a mapped document, a document
\* without natural id and a document whose natural id is not in the mapping.
RelatedPassSkippedLines ==
    /\ pc = "load_conditions"
    /\ related_data.conditions # <<>>
    /\ \E i \in 1..Len(data_file) : ~ExtractableId(data_file[i])
    /\ \E i \in 1..Len(data_file) :
          /\ ExtractableId(data_file[i])
          /\ NctId(data_file[i]) \notin DOMAIN nct_id_to_study_id

\* The documents of a raw log that name a lead sponsor.
RECURSIVE Leads(_)
Leads(lines) ==
    IF lines = <<>> THEN 0
    ELSE (IF Doc(Head(lines)).lead # NoneStr THEN 1 ELSE 0) + Leads(Tail(lines))

RoleRows(table, role) ==
    Cardinality({i \in 1..Len(table) : table[i].lead_or_collaborator = role})

\* C24: one full run on a raw log of documents with pairwise distinct
\* natural ids, against an empty store, gives a studies row per document
\* with a natural id, a conditions row per listed condition, a locations
\* row per listed site, a 'Lead' row per document naming a lead sponsor and
\* a 'Collaborator' row per named collaborator, and no orphan.
EndToEndCounts ==
    pc = "done" =>
       LET docs == WithId(data_file)
       IN /\ Len(studies) = Len(docs)
          /\ Len(conditions) = Listed(docs, "conditions")
          /\ Len(locations) = Listed(docs, "locations")
          /\ RoleRows(sponsors, "Lead") = Leads(docs)
          /\ RoleRows(sponsors, "Collaborator") = Listed(docs, "collaborators")
          /\ Len(sponsors) = Leads(docs) + Listed(docs, "collaborators")
          /\ Orphans(conditions, studies) = 0
          /\ Orphans(locations, studies) = 0
          /\ Orphans(sponsors, studies) = 0

\* The page request before request i, and the token its response carried
\* (0 for none).
PreviousGet(i) == CHOOSE j \in PageGets : j < i /\ \A k \in PageGets : k < i => k <= j

ReturnedToken(i) ==
    IF ResponseTo(i).token THEN ResponseTo(i).next ELSE 0

\* C27: token chaining. The first page request of a run carries no
\* continuation token, and every later one carries exactly the
\* nextPageToken of the response to the request just before it.
TokenChaining ==
    \A i \in PageGets :
       IF \A j \in PageGets : i <= j
       THEN events[i].pageToken = 0
       ELSE /\ ReturnedToken(PreviousGet(i)) # 0
            /\ events[i].pageToken = ReturnedToken(PreviousGet(i))

\* Three requests, the last with a token older than the one before it
\* carried: the upstream sent the client back.
FollowedTokenBack ==
    /\ Cardinality(PageGets) >= 3
    /\ \E i, j \in PageGets :
          /\ i < j
          /\ events[i].pageToken > events[j].pageToken
          /\ events[i].pageToken # 0 /\ events[j].pageToken # 0

\* C28: fetch_all_studies issues at most max_records page requests and no
\* page request once max_records documents have been yielded, whatever the
\* upstream answers, the same token again and again included.
RequestsWithinCap ==
    /\ Len(requests) <= GivenCap
    /\ \A i \in PageGets :
          Cardinality({j \in 1..(i - 1) : events[j].kind = "yield"}) < GivenCap

====
